---- MODULE Spec2Model ----
\* A model of `prop`: for every path argument the program opens the entry,
\* reads its metadata, classifies it and prints a fixed-width panel
\* (src/src/main.rs, src/src/informer.rs).
EXTENDS Integers, Sequences, FiniteSets, TLC

\* ---------------------------------------------------------------------
\* Text
\* ---------------------------------------------------------------------
\* A string is the sequence of its characters, each a one-character TLA+
\* string.  A number printed with `{}` is one element of the sequence, a
\* record that carries the number printed (see Numeral, DateStamp, TimeStamp).

Repeat(c, k) == [i \in 1 .. k |-> c]

\* ---------------------------------------------------------------------
\* u64 and floating point (File::determine_size, informer.rs:38-60)
\* ---------------------------------------------------------------------
\* TLC integers are 32 bits wide, so a u64 is modelled as its 64 binary
\* digits, bit 0 the least significant one.

U64Bits == 64
F32Digits == 24

\* bounds of the byte counts drawn: every n <= MaxSmall, and 2^k - d, 2^k + d
\* for every k >= SmallExp and d <= MaxDelta.
MaxSmall == 1100
SmallExp == 20
MaxDelta == 40

RECURSIVE Pow2(_)
Pow2(k) == IF k <= 0 THEN 1 ELSE 2 * Pow2(k - 1)

BitIdx == 0 .. (U64Bits - 1)

\* bit i of the natural number v (v < 2^30).
NatBit(v, i) == IF i >= 30 THEN 0 ELSE (v \div Pow2(i)) % 2

FromNat(v) == [i \in BitIdx |-> NatBit(v, i)]

\* 2^k + d, for 0 <= d < 2^k and k < 64.
PowPlus(k, d) ==
    [i \in BitIdx |-> IF i = k THEN 1 ELSE IF i > k THEN 0 ELSE NatBit(d, i)]

\* 2^k - d, for 1 <= d <= 2^k and k <= 64: (2^k - 1) - (d - 1) is the
\* complement of d - 1 in the low k bits.
PowMinus(k, d) ==
    [i \in BitIdx |-> IF i >= k THEN 0 ELSE 1 - NatBit(d - 1, i)]

U64Inputs ==
    {FromNat(v) : v \in 0 .. MaxSmall}
    \cup {PowPlus(k, d) : k \in SmallExp .. (U64Bits - 1), d \in 0 .. MaxDelta}
    \cup {PowMinus(k, d) : k \in SmallExp .. U64Bits, d \in 1 .. MaxDelta}

\* index of the most significant set bit, -1 for zero.
TopBit(b) ==
    IF \A i \in BitIdx : b[i] = 0 THEN -1
    ELSE CHOOSE i \in BitIdx : b[i] = 1 /\ \A j \in BitIdx : j > i => b[j] = 0

\* the value of bits lo..hi of b (hi - lo < 30).
RECURSIVE BitsValue(_, _, _)
BitsValue(b, lo, hi) ==
    IF hi < lo THEN 0 ELSE b[lo] + 2 * BitsValue(b, lo + 1, hi)

\* n < 2^k and n >= 2^k on the exact integers.
BelowPow2(b, k) == \A i \in BitIdx : i >= k => b[i] = 0
AtLeastPow2(b, k) == ~BelowPow2(b, k)

\* A float is [m, e], the number m * 2^e, with m < 2^24 for an f32.
\* `value as f32` (line 39): a u64 of more than 24 significant bits is
\* rounded to the nearest f32, ties to even.
ToF32(b) ==
    LET top == TopBit(b) IN
    IF top < F32Digits THEN [m |-> BitsValue(b, 0, top), e |-> 0]
    ELSE LET shift == top - (F32Digits - 1)
             mant == BitsValue(b, shift, top)
             half == b[shift - 1]
             sticky == \E i \in BitIdx : i < shift - 1 /\ b[i] = 1
             up == IF half = 1 /\ (sticky \/ mant % 2 = 1) THEN 1 ELSE 0
             r == mant + up
         IN  IF r = Pow2(F32Digits)
             THEN [m |-> Pow2(F32Digits - 1), e |-> shift + 1]
             ELSE [m |-> r, e |-> shift]

RECURSIVE BitLen(_)
BitLen(m) == IF m = 0 THEN 0 ELSE 1 + BitLen(m \div 2)

\* the same number with an odd mantissa (zero is [0, 0]).
RECURSIVE Norm(_)
Norm(f) ==
    IF f.m = 0 THEN [m |-> 0, e |-> 0]
    ELSE IF f.m % 2 = 1 THEN f
    ELSE Norm([m |-> f.m \div 2, e |-> f.e + 1])

\* a < b on floats.
LtF(a, b) ==
    LET x == Norm(a)
        y == Norm(b)
        lx == BitLen(x.m) + x.e
        ly == BitLen(y.m) + y.e
    IN  IF x.m = 0 THEN y.m > 0
        ELSE IF y.m = 0 THEN FALSE
        ELSE IF lx # ly THEN lx < ly
        ELSE x.m * Pow2(30 - BitLen(x.m)) < y.m * Pow2(30 - BitLen(y.m))

\* a * b and a / b on floats; every product and quotient determine_size
\* forms has a power of two as its second operand, so the result is exact.
MulF(a, b) ==
    LET x == Norm(a)
        y == Norm(b)
    IN  [m |-> x.m * y.m, e |-> x.e + y.e]
DivF(a, b) ==
    LET x == Norm(a)
        y == Norm(b)
    IN  [m |-> x.m, e |-> x.e - y.e]

\* the literal k as a float (k < 2^30), and 1024_u64^4 as f64 (line 57).
Lit(k) == [m |-> k, e |-> 0]
TeraF64 == MulF(MulF(Lit(1024), Lit(1024)), MulF(Lit(1024), Lit(1024)))

\* `{}` of a float: one element of the text, carrying the number printed.
Numeral(f) == [num |-> Norm(f)]

BytesSuffix == <<" ", "b", "y", "t", "e", "s">>
KBSuffix == <<" ", "K", "B">>
MBSuffix == <<" ", "M", "B">>
GBSuffix == <<" ", "G", "B">>
TBSuffix == <<" ", "T", "B">>

\* the value printed in the bytes tier (line 46): size / 1024, not size.
BytesValueRaw(size) == size
BytesValue(size) == DivF(size, Lit(1024))

determine_size(value) ==
    LET size == ToF32(value)
        byte_limit == Lit(1024)
        kb_limit == MulF(byte_limit, Lit(1024))
        mb_limit == MulF(kb_limit, Lit(1024))
        gb_limit == MulF(mb_limit, Lit(1024))
    IN  IF LtF(size, byte_limit)
        THEN <<Numeral(BytesValue(size))>> \o BytesSuffix
        ELSE IF LtF(size, kb_limit)
        THEN <<Numeral(DivF(size, Lit(1024)))>> \o KBSuffix
        ELSE IF LtF(size, mb_limit)
        THEN <<Numeral(DivF(size, Lit(1024 * 1024)))>> \o MBSuffix
        ELSE IF LtF(size, gb_limit)
        THEN <<Numeral(DivF(size, Lit(1024 * 1024 * 1024)))>> \o GBSuffix
        ELSE <<Numeral(DivF(size, TeraF64))>> \o TBSuffix

\* ---------------------------------------------------------------------
\* FilePermissions (informer.rs:98-138)
\* ---------------------------------------------------------------------
\* Option<FilePermissions>: the variant's name, or "None".
MaxMode == 4095

RECURSIVE BitAnd(_, _)
BitAnd(a, b) ==
    IF a = 0 \/ b = 0 THEN 0
    ELSE (a % 2) * (b % 2) + 2 * BitAnd(a \div 2, b \div 2)

\* 0o111
ExecMask == 73

\* the owner's execute bit (0o100) alone.
is_executable_owner(value) == BitAnd(value, 64) # 0
is_executable(value) == BitAnd(value, ExecMask) # 0

\* value: [readonly |-> value.readonly(), mode |-> value.mode()]
FilePermissions_new(value) ==
    IF value.readonly
    THEN IF is_executable(value.mode)
         THEN <<"Read", "None", "Executable">>
         ELSE <<"Read", "None", "None">>
    ELSE IF is_executable(value.mode)
         THEN <<"Read", "Write", "Executable">>
         ELSE <<"Read", "Write", "None">>

FilePermissions_to_string(perm) ==
    CASE perm = "Read" -> <<"R", "e", "a", "d">>
      [] perm = "Write" -> <<"W", "r", "i", "t", "e">>
      [] perm = "Executable" -> <<"E", "x", "e", "c", "u", "t", "a", "b", "l", "e">>

\* ---------------------------------------------------------------------
\* FileKind (informer.rs:140-169)
\* ---------------------------------------------------------------------
\* A FileType is the entry's type as the OS reports it; exactly one of the
\* seven types holds of an entry.
FileTypes == {"regular", "directory", "symlink", "chardev", "blockdev", "fifo", "socket"}

is_file(t) == t = "regular"
is_dir(t) == t = "directory"
is_symlink(t) == t = "symlink"

\* A call either returns a value or panics.
Ok(v) == [panic |-> FALSE, val |-> v]
Panic(why) == [panic |-> TRUE, why |-> why]

FileKind_from_total(value) ==
    IF is_file(value) THEN Ok("Regular")
    ELSE IF is_dir(value) THEN Ok("Folder")
    ELSE Ok("Symlink")
FileKind_from(value) ==
    IF is_file(value) THEN Ok("Regular")
    ELSE IF is_dir(value) THEN Ok("Folder")
    ELSE IF is_symlink(value) THEN Ok("Symlink")
    ELSE Panic("unreachable")

FileKind_to_string(kind) ==
    CASE kind = "Regular" -> <<"R", "e", "g", "u", "l", "a", "r">>
      [] kind = "Folder" -> <<"F", "o", "l", "d", "e", "r">>
      [] kind = "Symlink" -> <<"S", "y", "m", "l", "i", "n", "k">>

\* ---------------------------------------------------------------------
\* impl Display for File (informer.rs:63-96)
\* ---------------------------------------------------------------------
\* The box-drawing characters, each one character of the text.
BoxV == "|"
BoxH == "-"
BoxTopLeft == "top-left"
BoxTopRight == "top-right"
BoxBottomLeft == "bottom-left"
BoxBottomRight == "bottom-right"
BoxTeeLeft == "tee-left"
BoxTeeRight == "tee-right"

InnerWidth == 65
NameWidth == 63
SizeWidth == 57
PermissionsWidth == 50
KindWidth == 57
CreatedWidth == 54
ModifiedWidth == 53
AccessedWidth == 53

\* `.p` of a format spec: at most p characters of s.
Truncate(s, p) == IF Len(s) > p THEN SubSeq(s, 1, p) ELSE s

\* `{:<w}`: s, then spaces up to width w; a longer s is left as it is.
PadRight(s, w) == IF Len(s) >= w THEN s ELSE s \o Repeat(" ", w - Len(s))

\* `{:^w}`: s centred in width w, the odd space on the right.
Center(s, w) ==
    IF Len(s) >= w THEN s
    ELSE LET pad == w - Len(s)
         IN  Repeat(" ", pad \div 2) \o s \o Repeat(" ", pad - pad \div 2)

\* `{:^63.63}` and, without the precision, `{:^63}`.
FormatNameUntruncated(name) == Center(name, NameWidth)
FormatName(name) == Center(Truncate(name, NameWidth), NameWidth)

\* slice::join: the items with sep between each two of them.
RECURSIVE Join(_, _)
Join(items, sep) ==
    IF Len(items) = 0 THEN <<>>
    ELSE IF Len(items) = 1 THEN items[1]
    ELSE items[1] \o sep \o Join(Tail(items), sep)

\* lines 67-74: every slot is mapped to its label, an absent one to "".
PermissionsText(permissions) ==
    Join([i \in 1 .. Len(permissions) |->
             IF permissions[i] = "None" THEN <<>>
             ELSE FilePermissions_to_string(permissions[i])],
         <<"+">>)

Framed(label, field) == <<BoxV, " ">> \o label \o field \o <<" ", BoxV>>

\* The panel: its ten lines, in the order they are written.
File_fmt(self) ==
    LET name_line == Framed(<<>>, FormatName(self.name))
        size_line == Framed(<<"S", "i", "z", "e", ":", " ">>,
                            PadRight(self.size, SizeWidth))
        permissions_line ==
            Framed(<<"P", "e", "r", "m", "i", "s", "s", "i", "o", "n", "s", ":", " ">>,
                   PadRight(PermissionsText(self.permissions), PermissionsWidth))
        kind_line == Framed(<<"T", "y", "p", "e", ":", " ">>,
                            PadRight(FileKind_to_string(self.kind), KindWidth))
        created_line == Framed(<<"C", "r", "e", "a", "t", "e", "d", ":", " ">>,
                               PadRight(self.date.created, CreatedWidth))
        modified_line == Framed(<<"M", "o", "d", "i", "f", "i", "e", "d", ":", " ">>,
                                PadRight(self.date.modified, ModifiedWidth))
        accessed_line == Framed(<<"A", "c", "c", "e", "s", "s", "e", "d", ":", " ">>,
                                PadRight(self.date.accessed, AccessedWidth))
        horizontal_line == Repeat(BoxH, InnerWidth)
    IN  << <<BoxTopLeft>> \o horizontal_line \o <<BoxTopRight>>,
           name_line,
           <<BoxTeeLeft>> \o horizontal_line \o <<BoxTeeRight>>,
           size_line,
           permissions_line,
           kind_line,
           created_line,
           modified_line,
           accessed_line,
           <<BoxBottomLeft>> \o horizontal_line \o <<BoxBottomRight>> >>

\* ---------------------------------------------------------------------
\* FileDate (informer.rs:171-207)
\* ---------------------------------------------------------------------
\* A SystemTime is a number of seconds relative to the Unix epoch, negative
\* before it.  What Metadata::created/modified/accessed return is <<t>> for
\* Ok(t) and <<>> for Err: a timestamp the OS does not supply.
\* The process's time zone decides UtcOffset::local_offset_at.
Zones == {"utc", "east", "indeterminate"}

local_offset_at(zone, utc) ==
    CASE zone = "utc" -> Ok(0)
      [] zone = "east" -> Ok(3600)
      [] zone = "indeterminate" -> Panic("local_offset_at")

\* `{}` of a Date and of a Time: one element of the text each, carrying the
\* day (since the epoch) and the second of the day printed.
DateStamp(day) == [date |-> day]
TimeStamp(second) == [time |-> second]

Unknown == <<"u", "n", "k", "n", "o", "w", "n">>

\* lines 179-188: every unwrap() is a panic on Err.
parse_time(systime, zone) ==
    IF systime < 0 THEN Panic("duration_since")
    ELSE LET utc == 0 + systime
             offset == local_offset_at(zone, utc)
         IN  IF offset.panic THEN offset
             ELSE LET local == utc + offset.val
                  IN  Ok(<<DateStamp(local \div 86400), " ", TimeStamp(local % 86400)>>)

\* .map_or_else(|_| "unknown".to_string(), |val| Self::parse_time(val, epoch))
TimeOrUnknown(stamp, zone) ==
    IF stamp = <<>> THEN Ok(Unknown) ELSE parse_time(stamp[1], zone)

\* the timestamp the `accessed` field is computed from (line 202).
AccessedSource(value) == value.modified

FileDate_from(value, zone) ==
    LET created == TimeOrUnknown(value.created, zone)
        modified == TimeOrUnknown(value.modified, zone)
        accessed == TimeOrUnknown(AccessedSource(value), zone)
    IN  IF created.panic THEN created
        ELSE IF modified.panic THEN modified
        ELSE IF accessed.panic THEN accessed
        ELSE Ok([created |-> created.val, modified |-> modified.val,
                 accessed |-> accessed.val])

\* ---------------------------------------------------------------------
\* The file system the program runs against
\* ---------------------------------------------------------------------
\* A path is the sequence of its components below the root, each a string
\* (a sequence of characters).  An entry is a symbolic link to a path or an
\* inode with what open() and fstat() report for it.
MaxNameLen == 70

Inode(type, len, mode, created, modified, accessed) ==
    [type |-> type, len |-> len, mode |-> mode, open |-> "ok", stat |-> "ok",
     created |-> <<created>>, modified |-> <<modified>>, accessed |-> <<accessed>>]
Link(to) ==
    [type |-> "symlink", len |-> FromNat(Len(to)), mode |-> 511, open |-> "ok",
     stat |-> "ok", created |-> <<100>>, modified |-> <<100>>, accessed |-> <<100>>,
     to |-> to]

PathRoot == <<>>
PathEmpty == << <<"e">> >>
PathDir == << <<"d">> >>
PathScript == << <<"d">>, <<"r", "u", "n">> >>
PathReadOnly == << <<"r", "o">> >>
PathReadOnlyExec == << <<"r", "x">> >>
PathBig == << <<"b", "i", "g">> >>
PathLong == << Repeat("n", MaxNameLen) >>
PathNull == << <<"d", "e", "v">>, <<"n", "u", "l", "l">> >>
PathDisk == << <<"d", "e", "v">>, <<"s", "d", "a">> >>
PathFifo == << <<"f", "i", "f", "o">> >>
PathSocket == << <<"s", "o", "c", "k">> >>
PathOld == << <<"o", "l", "d">> >>
PathNoBirth == << <<"n", "b">> >>
PathDenied == << <<"s", "e", "c", "r", "e", "t">> >>
PathStatFails == << <<"i", "o">> >>
PathLinkToFile == << <<"l", "f">> >>
PathLinkToDir == << <<"l", "d">> >>
PathLinkToLink == << <<"l", "l">> >>
PathDangling == << <<"l", "x">> >>
PathLoop == << <<"l", "o", "o", "p">> >>
PathMissing == << <<"g", "o", "n", "e">> >>

Entries ==
    { <<PathRoot, Inode("directory", FromNat(4096), 493, 10, 20, 30)>>,
      <<PathEmpty, Inode("regular", FromNat(0), 420, 100, 200, 300)>>,
      <<PathDir, Inode("directory", FromNat(4096), 493, 100, 86400, 90000)>>,
      <<PathScript, Inode("regular", FromNat(1), 493, 100, 200, 200)>>,
      <<PathReadOnly, Inode("regular", FromNat(1536), 292, 100, 200, 82801)>>,
      <<PathReadOnlyExec, Inode("regular", FromNat(1024), 365, 0, 0, 1)>>,
      <<PathBig, Inode("regular", PowMinus(30, 1), 420, 100, 200, 300)>>,
      <<PathLong, Inode("regular", FromNat(1023), 420, 100, 200, 300)>>,
      <<PathNull, Inode("chardev", FromNat(0), 438, 100, 200, 300)>>,
      <<PathDisk, Inode("blockdev", FromNat(0), 432, 100, 200, 300)>>,
      <<PathFifo, Inode("fifo", FromNat(0), 420, 100, 200, 300)>>,
      <<PathSocket, [Inode("socket", FromNat(0), 493, 100, 200, 300) EXCEPT !.open = "err"]>>,
      <<PathOld, Inode("regular", FromNat(0), 420, 100, -1, 300)>>,
      <<PathNoBirth, [Inode("regular", FromNat(0), 420, 0, 200, 300) EXCEPT !.created = <<>>]>>,
      <<PathDenied, [Inode("regular", FromNat(0), 0, 100, 200, 300) EXCEPT !.open = "err"]>>,
      <<PathStatFails, [Inode("regular", FromNat(0), 420, 100, 200, 300) EXCEPT !.stat = "err"]>>,
      <<PathLinkToFile, Link(PathEmpty)>>,
      <<PathLinkToDir, Link(PathDir)>>,
      <<PathLinkToLink, Link(PathLinkToFile)>>,
      <<PathDangling, Link(PathMissing)>>,
      <<PathLoop, Link(PathLoop)>> }

Paths == {e[1] : e \in Entries} \cup {PathMissing}
Exists(path) == \E e \in Entries : e[1] = path
Entry(path) == (CHOOSE e \in Entries : e[1] = path)[2]

\* open() follows symbolic links (at most `hops` of them) to the inode the
\* path names; an error when there is none or it cannot be opened.
RECURSIVE Resolve(_, _)
Resolve(path, hops) ==
    IF ~Exists(path) THEN Panic("failed to get data from file")
    ELSE LET e == Entry(path)
         IN  IF e.type = "symlink"
             THEN IF hops = 0 THEN Panic("failed to get data from file")
                  ELSE Resolve(e.to, hops - 1)
             ELSE IF e.open = "ok" THEN Ok(e)
             ELSE Panic("failed to get data from file")

\* an open that does not follow a final symbolic link: the entry itself.
RawFile_open_nofollow(path) ==
    IF ~Exists(path) THEN Panic("failed to get data from file")
    ELSE LET e == Entry(path)
         IN  IF e.open = "ok" THEN Ok(e)
             ELSE Panic("failed to get data from file")
\* RawFile::open(path).expect(..), line 22: at most 40 links are followed.
RawFile_open(path) == Resolve(path, 40)

\* raw_file.metadata().expect(..), line 24
RawFile_metadata(raw_file) ==
    IF raw_file.stat = "ok" THEN Ok(raw_file)
    ELSE Panic("failed to get metadata from file")

\* Permissions::readonly() on Unix: no write bit (0o222) is set.
Metadata_permissions(metadata) ==
    [readonly |-> BitAnd(metadata.mode, 146) = 0, mode |-> metadata.mode]

\* Path::file_name: the last component, none for the root.
FileName(path) ==
    IF Len(path) = 0 THEN Unknown ELSE path[Len(path)]

\* File::new (lines 20-36): the record, or the panic that ends the run.
File_new(path, zone) ==
    LET raw_file == RawFile_open(path)
    IN  IF raw_file.panic THEN raw_file
        ELSE LET metadata == RawFile_metadata(raw_file.val)
             IN  IF metadata.panic THEN metadata
                 ELSE LET md == metadata.val
                          kind == FileKind_from(md.type)
                          date == FileDate_from(md, zone)
                      IN  IF kind.panic THEN kind
                          ELSE IF date.panic THEN date
                          ELSE Ok([name |-> FileName(path),
                                   size |-> determine_size(md.len),
                                   permissions |-> FilePermissions_new(Metadata_permissions(md)),
                                   kind |-> kind.val,
                                   date |-> date.val])

\* ---------------------------------------------------------------------
\* State
\* ---------------------------------------------------------------------
\* arg, ret, pc: the argument, the result and the position of a call of one
\*   function on its own (SpecSize, SpecPerm, SpecFmt); pc = "main" in a run
\*   of the program.
\* args:   the path arguments of the run, in order (main.rs:13)
\* zone:   the time zone of the process
\* next:   the index of the argument main's for_each processes next
\* opened: the paths File::new was called on, in order
\* stdout: the panels printed, in order
\* status: "running", "exited" (main returned) or "panicked"
VARIABLES arg, ret, pc, args, zone, next, opened, stdout, status

vars == <<arg, ret, pc, args, zone, next, opened, stdout, status>>
callVars == <<arg, ret, pc>>
mainVars == <<args, zone, next, opened, stdout, status>>

MaxArgs == 2

NoRun ==
    /\ args = <<>>
    /\ zone = "utc"
    /\ next = 1
    /\ opened = <<>>
    /\ stdout = <<>>
    /\ status = "running"

\* ---------------------------------------------------------------------
\* File::determine_size on its own
\* ---------------------------------------------------------------------
InitSize == arg \in U64Inputs /\ ret = <<>> /\ pc = "call" /\ NoRun

CallSize ==
    /\ pc = "call"
    /\ ret' = determine_size(arg)
    /\ pc' = "done"
    /\ UNCHANGED <<arg, mainVars>>

SpecSize == InitSize /\ [][CallSize]_vars

\* ---------------------------------------------------------------------
\* FilePermissions::new on its own
\* ---------------------------------------------------------------------
InitPerm ==
    /\ arg \in [readonly : BOOLEAN, mode : 0 .. MaxMode]
    /\ ret = <<>>
    /\ pc = "call"
    /\ NoRun

CallPerm ==
    /\ pc = "call"
    /\ ret' = FilePermissions_new(arg)
    /\ pc' = "done"
    /\ UNCHANGED <<arg, mainVars>>

SpecPerm == InitPerm /\ [][CallPerm]_vars

\* ---------------------------------------------------------------------
\* Display::fmt of a File on its own
\* ---------------------------------------------------------------------
\* The strings of the record are drawn with every length within Slack of the
\* width reserved for them, and the name also with every length <= MaxShort.
Slack == 1
MaxShort == 3

Around(w) == (w - Slack) .. (w + Slack)

PermissionArrays ==
    {FilePermissions_new(v) : v \in [readonly : BOOLEAN, mode : {420, 493}]}

FileRecords ==
    [name : {Repeat("n", k) : k \in (0 .. MaxShort) \cup Around(NameWidth)},
     size : {Repeat("s", k) : k \in Around(SizeWidth)},
     permissions : PermissionArrays,
     kind : {"Regular", "Folder", "Symlink"},
     date : [created : {Repeat("c", k) : k \in Around(CreatedWidth)},
             modified : {Repeat("m", k) : k \in Around(ModifiedWidth)},
             accessed : {Repeat("a", k) : k \in Around(AccessedWidth)}]]

InitFmt == arg \in FileRecords /\ ret = <<>> /\ pc = "call" /\ NoRun

CallFmt ==
    /\ pc = "call"
    /\ ret' = File_fmt(arg)
    /\ pc' = "done"
    /\ UNCHANGED <<arg, mainVars>>

SpecFmt == InitFmt /\ [][CallFmt]_vars

\* ---------------------------------------------------------------------
\* main (main.rs:12-17)
\* ---------------------------------------------------------------------
RECURSIVE SeqsUpTo(_, _)
SeqsUpTo(S, k) ==
    IF k = 0 THEN {<<>>}
    ELSE LET shorter == SeqsUpTo(S, k - 1)
         IN  shorter \cup {Append(s, x) : s \in shorter, x \in S}

Init ==
    /\ args \in SeqsUpTo(Paths, MaxArgs)
    /\ zone \in Zones
    /\ next = 1
    /\ opened = <<>>
    /\ stdout = <<>>
    /\ status = "running"
    /\ arg = <<>>
    /\ ret = <<>>
    /\ pc = "main"

\* an iteration that reports the panic of File::new and goes on to the next
\* argument.
IterateSkipping ==
    /\ pc = "main"
    /\ status = "running"
    /\ next <= Len(args)
    /\ LET file == File_new(args[next], zone)
       IN  /\ opened' = Append(opened, args[next])
           /\ stdout' = (IF file.panic THEN stdout
                         ELSE Append(stdout, File_fmt(file.val)))
           /\ next' = next + 1
           /\ UNCHANGED status
    /\ UNCHANGED <<args, zone, callVars>>

\* one iteration of for_each: println!("{}", File::new(arg)); a panic in
\* File::new unwinds out of main before anything of the panel is printed.
Iterate ==
    /\ pc = "main"
    /\ status = "running"
    /\ next <= Len(args)
    /\ LET file == File_new(args[next], zone)
       IN  /\ opened' = Append(opened, args[next])
           /\ IF file.panic
              THEN /\ status' = "panicked"
                   /\ UNCHANGED <<next, stdout>>
              ELSE /\ stdout' = Append(stdout, File_fmt(file.val))
                   /\ next' = next + 1
                   /\ UNCHANGED status
    /\ UNCHANGED <<args, zone, callVars>>

\* the iterator is exhausted: main returns.
Return ==
    /\ pc = "main"
    /\ status = "running"
    /\ next > Len(args)
    /\ status' = "exited"
    /\ UNCHANGED <<args, zone, next, opened, stdout, callVars>>

Next == Iterate \/ Return

Spec == Init /\ [][Next]_vars

\* ---------------------------------------------------------------------
\* Properties of File::determine_size (SpecSize)
\* ---------------------------------------------------------------------

\* C1: the unit suffix is the tier whose range contains n: bytes iff
\* n < 1024, KB iff 1024 <= n < 1024^2, MB iff 1024^2 <= n < 1024^3,
\* GB iff 1024^3 <= n < 1024^4, TB iff n >= 1024^4, for every n, the values
\* right below each threshold included.
C1_TierContainsN ==
    pc = "done" =>
        /\ (Tail(ret) = BytesSuffix) = BelowPow2(arg, 10)
        /\ (Tail(ret) = KBSuffix) = (AtLeastPow2(arg, 10) /\ BelowPow2(arg, 20))
        /\ (Tail(ret) = MBSuffix) = (AtLeastPow2(arg, 20) /\ BelowPow2(arg, 30))
        /\ (Tail(ret) = GBSuffix) = (AtLeastPow2(arg, 30) /\ BelowPow2(arg, 40))
        /\ (Tail(ret) = TBSuffix) = AtLeastPow2(arg, 40)

\* C9: for every n < 1024 the result is the number n / 1024 (1024 times it
\* is n, not n itself) followed by " bytes"; n = 0 prints 0 in that tier.
C9_BytesTierDividedBy1024 ==
    (pc = "done" /\ BelowPow2(arg, 10)) =>
        /\ Tail(ret) = BytesSuffix
        /\ Len(ret) = 1 + Len(BytesSuffix)
        /\ Head(ret).num.e >= -10
        /\ Head(ret).num.m * Pow2(Head(ret).num.e + 10) = BitsValue(arg, 0, 9)
        /\ (arg = FromNat(0) => Head(ret).num.m = 0)

C9_Witness ==
    /\ pc = "done"
    /\ arg = FromNat(1023)
    /\ Head(ret) = [num |-> [m |-> 1023, e |-> -10]]
    /\ Tail(ret) = BytesSuffix

\* ---------------------------------------------------------------------
\* Properties of FilePermissions::new (SpecPerm)
\* ---------------------------------------------------------------------
ModeBit(mode, i) == (mode \div Pow2(i)) % 2

\* C2: the result has 3 slots; slot 0 is Some(Read); slot 1 is Some(Write)
\* iff the read-only flag is false, else None; slot 2 is Some(Executable) iff
\* an execute bit (0o100, 0o010, 0o001) of the mode is set, else None; slot 2
\* is the same for the other flag, slot 1 the same for other modes.
C2_PermissionSlots ==
    pc = "done" =>
        /\ Len(ret) = 3
        /\ ret[1] = "Read"
        /\ ret[2] = (IF arg.readonly THEN "None" ELSE "Write")
        /\ ret[3] = (IF ModeBit(arg.mode, 0) = 1 \/ ModeBit(arg.mode, 3) = 1
                        \/ ModeBit(arg.mode, 6) = 1
                     THEN "Executable" ELSE "None")
        /\ FilePermissions_new([arg EXCEPT !.readonly = ~arg.readonly])[3] = ret[3]
        /\ \A m \in {0, ExecMask, MaxMode} :
               FilePermissions_new([arg EXCEPT !.mode = m])[2] = ret[2]

C2_Witness ==
    /\ pc = "done"
    /\ arg = [readonly |-> TRUE, mode |-> 8]
    /\ ret = <<"Read", "None", "Executable">>

\* ---------------------------------------------------------------------
\* Properties of the panel (SpecFmt)
\* ---------------------------------------------------------------------
TotalWidth == InnerWidth + 2

Excess(s, w) == IF Len(s) > w THEN Len(s) - w ELSE 0

PermissionsLabel == <<"P", "e", "r", "m", "i", "s", "s", "i", "o", "n", "s", ":", " ">>

JoinedLabels(permissions) ==
    CASE permissions = <<"Read", "None", "None">> -> <<"R", "e", "a", "d">>
      [] permissions = <<"Read", "Write", "None">> ->
            <<"R", "e", "a", "d", "+", "W", "r", "i", "t", "e">>
      [] permissions = <<"Read", "None", "Executable">> ->
            <<"R", "e", "a", "d", "+", "E", "x", "e", "c", "u", "t", "a", "b", "l", "e">>
      [] permissions = <<"Read", "Write", "Executable">> ->
            <<"R", "e", "a", "d", "+", "W", "r", "i", "t", "e", "+",
              "E", "x", "e", "c", "u", "t", "a", "b", "l", "e">>

\* C8: the Permissions line shows the labels of the present slots with one
\* '+' between two present labels and none for an absent slot: Read,
\* Read+Write, Read+Executable or Read+Write+Executable.
C8_PlusOnlyBetweenPresent ==
    pc = "done" =>
        ret[5] = <<BoxV, " ">> \o PermissionsLabel
                     \o JoinedLabels(arg.permissions)
                     \o Repeat(" ", PermissionsWidth - Len(JoinedLabels(arg.permissions)))
                     \o <<" ", BoxV>>

\* ---------------------------------------------------------------------
\* Properties of a run (Spec)
\* ---------------------------------------------------------------------
Finished == status \in {"exited", "panicked"}

Min(a, b) == IF a < b THEN a ELSE b

\* the least index i with P(args[i]), Len(args) + 1 when there is none.
FirstIndex(P(_)) ==
    IF \E i \in 1 .. Len(args) : P(args[i])
    THEN CHOOSE i \in 1 .. Len(args) :
             P(args[i]) /\ \A j \in 1 .. (i - 1) : ~P(args[j])
    ELSE Len(args) + 1

\* the path can be opened and stat'ed: its metadata.
Acquired(path) ==
    LET raw_file == RawFile_open(path)
    IN  IF raw_file.panic THEN raw_file ELSE RawFile_metadata(raw_file.val)

CannotOpenOrStat(path) == Acquired(path).panic
NewPanics(path) == File_new(path, zone).panic

PanelOf(path) == File_fmt(File_new(path, zone).val)

\* the run stopped at index i: panels of the paths before i, nothing after.
StoppedAt(i) ==
    /\ Len(stdout) = i - 1
    /\ opened = SubSeq(args, 1, Min(i, Len(args)))
    /\ \A j \in 1 .. (i - 1) : stdout[j] = PanelOf(args[j])
    /\ (status = "panicked") = (i <= Len(args))

\* paths are taken in argument order, each printed before the next is opened.
InOrder ==
    /\ opened = SubSeq(args, 1, Len(opened))
    /\ Len(stdout) = (IF status = "panicked" THEN Len(opened) - 1 ELSE Len(opened))
    /\ next = Len(stdout) + 1

\* a timestamp conversion File::new performs for the path panics.
DatePanics(path) ==
    ~CannotOpenOrStat(path) /\ FileDate_from(Acquired(path).val, zone).panic

\* C6 as stated, in the runs where no timestamp conversion panics: the run
\* stops at the first path that cannot be opened or stat'ed, having printed
\* the panels of the paths before it and nothing else; with no such path it
\* prints one panel per argument.
C6_StopsAtFirstUnopenable ==
    (\A i \in 1 .. Len(args) : ~DatePanics(args[i])) =>
        /\ InOrder
        /\ Finished => StoppedAt(FirstIndex(CannotOpenOrStat))

\* C6 amended: the run stops at the first path for which File::new panics
\* (it cannot be opened or stat'ed, its type is none of regular file,
\* directory, symlink, or a timestamp conversion panics), having printed the
\* panels of the paths before it, in order, and nothing else, and having
\* opened no later path; with no such path it prints one panel per argument.
C6_StopsAtFirstPanic ==
    /\ InOrder
    /\ Finished => StoppedAt(FirstIndex(NewPanics))

C6_Witness ==
    /\ status = "panicked"
    /\ args = <<PathReadOnly, PathMissing>>
    /\ opened = args
    /\ stdout = <<PanelOf(PathReadOnly)>>

TypeLabel == <<"T", "y", "p", "e", ":", " ">>
TypeLine(kind) ==
    <<BoxV, " ">> \o TypeLabel \o kind \o Repeat(" ", KindWidth - Len(kind)) \o <<" ", BoxV>>

RegularText == <<"R", "e", "g", "u", "l", "a", "r">>
FolderText == <<"F", "o", "l", "d", "e", "r">>
SymlinkText == <<"S", "y", "m", "l", "i", "n", "k">>

KindText(type) ==
    CASE type = "regular" -> RegularText
      [] type = "directory" -> FolderText
      [] type = "symlink" -> SymlinkText

Classified == {"regular", "directory", "symlink"}

\* C7: FileKind::from returns Regular iff is_file, Folder iff is_dir and
\* Symlink iff is_symlink, and panics for every other type; a path whose
\* metadata has such a type ends the run with no panel printed for it, and
\* the panel of any other path shows the kind of its type.
C7_KindOrUnreachable ==
    /\ \A t \in FileTypes :
           /\ FileKind_from(t).panic = (t \notin Classified)
           /\ t \in Classified =>
                  /\ (FileKind_from(t).val = "Regular") = is_file(t)
                  /\ (FileKind_from(t).val = "Folder") = is_dir(t)
                  /\ (FileKind_from(t).val = "Symlink") = is_symlink(t)
    /\ \A i \in 1 .. Len(opened) :
           ~CannotOpenOrStat(args[i]) =>
               LET type == Acquired(args[i]).val.type
               IN  IF type \in Classified
                   THEN i <= Len(stdout) => stdout[i][6] = TypeLine(KindText(type))
                   ELSE /\ status = "panicked"
                        /\ i = Len(opened)
                        /\ Len(stdout) = i - 1

C7_Witness ==
    /\ status = "panicked"
    /\ args = <<PathDir, PathFifo>>
    /\ opened = args
    /\ Len(stdout) = 1
    /\ stdout[1][6] = TypeLine(FolderText)

\* C10: the metadata is that of the entry a path leads to through symbolic
\* links: no panel shows the kind Symlink; a link to a regular file shows
\* Regular, a link to a directory Folder, and a dangling link ends the run
\* with the access failure and no panel.
C10_LinksAreFollowed ==
    /\ \A i \in 1 .. Len(stdout) :
           /\ stdout[i][6] \in {TypeLine(RegularText), TypeLine(FolderText)}
           /\ args[i] \in {PathLinkToFile, PathLinkToLink} =>
                  stdout[i][6] = TypeLine(RegularText)
           /\ args[i] = PathLinkToDir => stdout[i][6] = TypeLine(FolderText)
           /\ args[i] # PathDangling
    /\ \A i \in 1 .. Len(opened) :
           args[i] = PathDangling =>
               /\ status = "panicked"
               /\ i = Len(opened)
               /\ Len(stdout) = i - 1
               /\ File_new(args[i], zone) = Panic("failed to get data from file")

C10_Witness ==
    /\ status = "panicked"
    /\ args = <<PathLinkToDir, PathDangling>>
    /\ opened = args
    /\ Len(stdout) = 1
    /\ stdout[1][6] = TypeLine(FolderText)

AccessedLabel == <<"A", "c", "c", "e", "s", "s", "e", "d", ":", " ">>
ModifiedLabel == <<"M", "o", "d", "i", "f", "i", "e", "d", ":", " ">>
CreatedLabel == <<"C", "r", "e", "a", "t", "e", "d", ":", " ">>
DateLine(label, text, width) ==
    <<BoxV, " ">> \o label \o text \o Repeat(" ", width - Len(text)) \o <<" ", BoxV>>

\* C4: the accessed field is the formatting of the entry's access time:
\* every panel's Accessed line shows the access time of its path.
C4_AccessedIsAccessTime ==
    \A i \in 1 .. Len(stdout) :
        LET md == Acquired(args[i]).val
            text == TimeOrUnknown(md.accessed, zone)
        IN  ~text.panic => stdout[i][9] = DateLine(AccessedLabel, text.val, AccessedWidth)

\* the timestamp is not supplied, is before the epoch, or has no local offset.
TimestampFails(stamp) ==
    \/ stamp = <<>>
    \/ stamp[1] < 0
    \/ zone = "indeterminate"

\* C5: a timestamp failure never aborts: a path that is opened, stat'ed and
\* of a classified type gets its panel, and a date whose timestamp is not
\* supplied, is before the epoch or has no local offset shows "unknown".
C5_TimestampFailureIsUnknown ==
    \A i \in 1 .. Len(opened) :
        (~CannotOpenOrStat(args[i]) /\ Acquired(args[i]).val.type \in Classified) =>
            LET md == Acquired(args[i]).val
            IN  /\ i <= Len(stdout)
                /\ status # "panicked"
                /\ TimestampFails(md.created) =>
                       stdout[i][7] = DateLine(CreatedLabel, Unknown, CreatedWidth)
                /\ TimestampFails(md.modified) =>
                       stdout[i][8] = DateLine(ModifiedLabel, Unknown, ModifiedWidth)
                /\ TimestampFails(md.accessed) =>
                       stdout[i][9] = DateLine(AccessedLabel, Unknown, AccessedWidth)
====
